---- MODULE Spec2Model ----
(***************************************************************************)
(* Model of the chat-completion client's two core components:              *)
(*   - the retrying request dispatcher (client.go: sendRequest and         *)
(*     sendRequestStream, with RetryOptions and handleErrorResp);          *)
(*   - the incremental stream reader (streamReader: Recv, processLines,    *)
(*     unmarshalError).                                                    *)
(* Spec       is one dispatch call against an arbitrary transport.         *)
(* SpecLong   is one dispatch call with a long attempt budget, against a   *)
(*            transport that cannot connect until the last attempts.       *)
(* SpecMerge  is the merge of any list of override fragments.              *)
(* SpecReader is one stream reader pulled repeatedly over a body.          *)
(* SpecPair   is a buffered and a streaming call run against the same      *)
(*            policy, transport outcomes and cancellation timing.          *)
(***************************************************************************)
EXTENDS Integers, Sequences, FiniteSets, TLC

VARIABLES
    fn,          \* which dispatcher runs: "sendRequest" or "sendRequestStream"
    retryOpts,   \* the retryOpts ...RetryOptions argument
    reqBody,     \* req.Body: the reader it is, the bytes it is over, how many were read
    sink,        \* the v Response argument of sendRequest: "nil", "string", "struct"
    options,     \* the merged RetryOptions
    bodyBytes,   \* the saved request body
    i,           \* the loop variable of the attempt loop
    failures,    \* the failures []string trail
    resp,        \* the response of the attempt in hand
    pc,          \* position of the call
    ctxDone,     \* req.Context() is cancelled
    timer,       \* the time.After timer of the backoff select
    ret,         \* what the call returned
    attempts,    \* number of HTTPClient.Do calls started
    returned,    \* number of HTTPClient.Do calls that have returned
    sent,        \* the request body handed to the transport at each attempt
    nWaits,      \* number of backoff waits that ran to the timer
    cancelMark,  \* attempts at the moment the context was cancelled in a blocked backoff, or -1
    unclosed,    \* the attempts whose response body has not been closed
    lines,       \* the response body of the stream, as a sequence of lines
    lastTerminated, \* whether the last line of the body ends in '\n'
    closeErr,    \* the read error the body ends with
    emptyMessagesLimit, \* streamReader.emptyMessagesLimit
    isFinished,  \* streamReader.isFinished
    errBuffer,   \* streamReader.errBuffer
    pos,         \* number of ReadBytes calls that returned data or consumed the end
    recvs,       \* the results of the Recv calls made so far, in order
    closed,      \* the stream's response body has been closed
    script,      \* what the environment does at each attempt of a pair of calls
    buffered,    \* the runs sendRequest can make against the script
    streamed     \* the runs sendRequestStream can make against the script

dvars == <<fn, retryOpts, reqBody, sink, options, bodyBytes, i, failures, resp, pc,
           ctxDone, timer, ret, attempts, returned, sent, nWaits, cancelMark>>
rvars == <<lines, lastTerminated, closeErr, emptyMessagesLimit, isFinished,
           errBuffer, pos, recvs, closed>>
pvars == <<script, buffered, streamed>>
vars == <<dvars, unclosed, rvars, pvars>>

\* ------------------------------------------------------------------ bounds

MaxRetries == 2      \* largest Retries value an override fragment carries
MaxLines == 3        \* longest stream body, in lines
MaxLimit == 2        \* largest emptyMessagesLimit
MaxRecvs == 3        \* Recv calls made on one reader
BodyLen == 2         \* length of the request body, in bytes
MaxFragments == 2    \* most override fragments passed in one call
LongRetries == 36    \* Retries of a policy with a long attempt budget


\* ------------------------------------------------------------------ int64

\* time.Duration is an int64: a value is its two's-complement representation in
\* eight 8-bit limbs, least significant first.
Limbs == 8
\* Limbs of the exact (unbounded) values the wrapped ones are compared with.
WideLimbs == 16

RECURSIVE Pow2(_)
Pow2(n) == IF n = 0 THEN 1 ELSE 2 * Pow2(n - 1)

\* limb k (from 1) of a natural below 2^31
Limb(n, k) == IF k > 4 THEN 0 ELSE (n \div Pow2(8 * (k - 1))) % 256

\* a function over 1..n as the tuple of its values
AsTuple(f) == f \o <<>>

ToLimbs(n, w) == AsTuple([k \in 1..w |-> Limb(n, k)])

At(x, k) == IF k >= 1 /\ k <= Len(x) THEN x[k] ELSE 0

\* x << s at the width of x: bits shifted past the top are lost
Shl(x, s) ==
    LET q == s \div 8
        r == s % 8
    IN  AsTuple([k \in 1..Len(x) |->
            ((At(x, k - q) * Pow2(r)) % 256) + (At(x, k - q - 1) \div Pow2(8 - r))])

RECURSIVE Carry(_, _)
\* the carry out of limb k of the sum of the columns cols
Carry(cols, k) == IF k = 0 THEN 0 ELSE (cols[k] + Carry(cols, k - 1)) \div 256

\* the number whose limb k is cols[k] (columns may exceed a limb), wrapped
Normalize(cols) ==
    AsTuple([k \in 1..Len(cols) |-> (cols[k] + Carry(cols, k - 1)) % 256])

\* x + y at the width of x, wrapping
AddInt64(x, y) == Normalize(AsTuple([k \in 1..Len(x) |-> x[k] + y[k]]))

RECURSIVE ColSum(_, _, _, _)
\* the sum of x[a] * y[k + 1 - a] for a in 1..n
ColSum(x, y, k, n) ==
    IF n = 0 THEN 0 ELSE x[n] * y[k + 1 - n] + ColSum(x, y, k, n - 1)

\* x * y at the width of x, wrapping
MulInt64(x, y) == Normalize(AsTuple([k \in 1..Len(x) |-> ColSum(x, y, k, k)]))

IsNegative(x) == x[Len(x)] >= 128

IsZero(x) == \A k \in 1..Len(x) : x[k] = 0

RECURSIVE CmpU(_, _, _)
CmpU(x, y, k) ==
    IF k = 0 THEN 0
    ELSE IF x[k] > y[k] THEN 1
    ELSE IF x[k] < y[k] THEN -1
    ELSE CmpU(x, y, k - 1)

\* a non-negative int64 as an exact value
Widen(x) == AsTuple([k \in 1..WideLimbs |-> IF k <= Len(x) THEN x[k] ELSE 0])

\* signed int64 x >= exact natural e
GeExact(x, e) == ~IsNegative(x) /\ CmpU(Widen(x), e, WideLimbs) >= 0

\* signed int64 x < exact natural e
LtExact(x, e) == IsNegative(x) \/ CmpU(Widen(x), e, WideLimbs) < 0

\* ------------------------------------------------------------------ backoff

\* const baseDelay = time.Millisecond * 200, in nanoseconds
baseDelay == 200000000

\* rand.Int63n(int64(baseDelay)) is uniform in [0, baseDelay): the two ends
Jitters == {0, baseDelay - 1}

\* Fault: the attempt index used as the factor, in place of 1<<i.
DelayNoShift(n) == MulInt64(ToLimbs(baseDelay, Limbs), ToLimbs(n, Limbs))

\* delay := baseDelay * time.Duration(1<<i)
Delay(n) == MulInt64(ToLimbs(baseDelay, Limbs), Shl(ToLimbs(1, Limbs), n))

\* delay + jitter, the argument of time.After
BackoffDuration(n, jitter) == AddInt64(Delay(n), ToLimbs(jitter, Limbs))

\* base * 2^n as an exact value
ExactDelay(n) == Shl(ToLimbs(baseDelay, WideLimbs), n)

\* ------------------------------------------------------------------ retry options

NewDefaultRetryOptions == [Retries |-> 0, RetryAboveCode |-> 1, RetryCodes |-> <<>>]

\* slices.Contains
Contains(s, x) == \E k \in 1..Len(s) : s[k] = x

\* Fault: codes appended without the membership test.
AppendCodesAll(codes, new) == codes \o new

RECURSIVE AppendCodes(_, _)
\* the inner loop of complete: each code is appended unless already there
AppendCodes(codes, new) ==
    IF new = <<>> THEN codes
    ELSE AppendCodes(IF Contains(codes, Head(new)) THEN codes
                     ELSE Append(codes, Head(new)),
                     Tail(new))

\* one iteration of the loop of complete
CompleteOne(r, opt) ==
    [Retries        |-> IF opt.Retries > 0 THEN opt.Retries ELSE r.Retries,
     RetryAboveCode |-> IF opt.RetryAboveCode > 0 THEN opt.RetryAboveCode
                        ELSE r.RetryAboveCode,
     RetryCodes     |-> AppendCodes(r.RetryCodes, opt.RetryCodes)]

RECURSIVE complete(_, _)
complete(r, opts) ==
    IF opts = <<>> THEN r ELSE complete(CompleteOne(r, Head(opts)), Tail(opts))

\* Fault: every failure status retried.
canRetryAlways(r, statusCode) == TRUE

canRetry(r, statusCode) ==
    IF r.RetryAboveCode > 0 /\ statusCode > r.RetryAboveCode THEN TRUE
    ELSE Contains(r.RetryCodes, statusCode)

\* ------------------------------------------------------------------ responses

isFailureStatusCode(r) == r.StatusCode < 200 \/ r.StatusCode >= 400

\* The response bodies of the model, as their text.
EnvBoom == "{\"error\":{\"message\":\"boom\"}}"
EnvEmpty == "{\"error\":{\"message\":\"\"}}"
PlainText == "upstream unavailable"
OkJSON == "{\"data\":[]}"

\* json.NewDecoder(data).Decode(&errRes) into an ErrorResponse: ok is err == nil,
\* hasError is errRes.Error != nil, Message is errRes.Error.Message.
DecodeErrorResponse(data) ==
    CASE data = EnvBoom  -> [ok |-> TRUE, hasError |-> TRUE, Message |-> "boom"]
      [] data = EnvEmpty -> [ok |-> TRUE, hasError |-> TRUE, Message |-> ""]
      [] data = OkJSON   -> [ok |-> TRUE, hasError |-> FALSE, Message |-> ""]
      [] OTHER           -> [ok |-> FALSE, hasError |-> FALSE, Message |-> ""]

handleErrorResp(r) ==
    LET data == r.Body
        errRes == DecodeErrorResponse(data)
    IN  IF errRes.ok /\ errRes.hasError /\ errRes.Message # ""
        THEN [type |-> "APIError", HTTPStatusCode |-> r.StatusCode,
              Message |-> errRes.Message]
        ELSE [type |-> "RequestError", HTTPStatusCode |-> r.StatusCode,
              Message |-> data]

\* decodeResponse(resp.Body, v): nil for a nil v, the raw text for a *string,
\* the JSON decoding otherwise.
decodeResponse(body, v) ==
    CASE v = "nil"    -> [kind |-> "ok", form |-> "none", value |-> "",
                          err |-> [type |-> "none", HTTPStatusCode |-> 0, Message |-> ""]]
      [] v = "string" -> [kind |-> "ok", form |-> "text", value |-> body,
                          err |-> [type |-> "none", HTTPStatusCode |-> 0, Message |-> ""]]
      [] OTHER        -> IF DecodeErrorResponse(body).ok
                         THEN [kind |-> "ok", form |-> "json", value |-> body,
                               err |-> [type |-> "none", HTTPStatusCode |-> 0,
                                        Message |-> ""]]
                         ELSE [kind |-> "decodeError", form |-> "none", value |-> "",
                               err |-> [type |-> "json", HTTPStatusCode |-> 0,
                                        Message |-> "invalid character"]]

\* ------------------------------------------------------------------ one dispatch call

\* The override fragments a caller passes.
Fragments ==
    [Retries : 0..MaxRetries, RetryAboveCode : {0, 599}, RetryCodes : {<<>>, <<503>>}]

OptChoices == {<<>>} \cup {<<f>> : f \in Fragments}

RequestBody == "{\"model\":\"m\"}"

\* What HTTPClient.Do can answer with.
Responses ==
    {[StatusCode |-> 200, Body |-> OkJSON],
     [StatusCode |-> 200, Body |-> PlainText],
     [StatusCode |-> 399, Body |-> OkJSON],
     [StatusCode |-> 199, Body |-> PlainText],
     [StatusCode |-> 400, Body |-> EnvBoom],
     [StatusCode |-> 400, Body |-> PlainText],
     [StatusCode |-> 503, Body |-> EnvBoom],
     [StatusCode |-> 503, Body |-> EnvEmpty]}

NoResp == [StatusCode |-> 0, Body |-> ""]
NoTimer == [armed |-> FALSE, fired |-> FALSE, n |-> 0, jitter |-> 0]
NoErr == [type |-> "none", HTTPStatusCode |-> 0, Message |-> ""]
NoRet == [kind |-> "none", form |-> "none", value |-> "", err |-> NoErr]

\* req.Body when the request has no body
NoBody == [reader |-> "nil", data |-> "nil", off |-> 0]

\* the reader the caller supplied as req.Body, nothing read from it yet
CallerBody(b) == IF b # "nil" THEN [reader |-> "caller", data |-> b, off |-> 0] ELSE NoBody

\* io.ReadAll(req.Body): the reader is read to its end
ReadAll(b) == IF b.reader # "nil" THEN [b EXCEPT !.off = BodyLen] ELSE b

\* what req.Body can be after the transport has read from it: any further offset
Consumed(b) ==
    {[b EXCEPT !.off = k] : k \in b.off..(IF b.reader = "nil" THEN b.off ELSE BodyLen)}

\* The reader's variables before a reader exists.
\* No pair of calls is run.
NoPair == script = <<>> /\ buffered = {} /\ streamed = {}

NoReader ==
    /\ lines = <<>>
    /\ lastTerminated = TRUE
    /\ closeErr = "EOF"
    /\ emptyMessagesLimit = 0
    /\ isFinished = FALSE
    /\ errBuffer = <<>>
    /\ pos = 0
    /\ recvs = <<>>
    /\ closed = FALSE

Init ==
    /\ fn \in {"sendRequest", "sendRequestStream"}
    /\ retryOpts \in OptChoices
    /\ reqBody \in {CallerBody("nil"), CallerBody(RequestBody)}
    /\ sink \in IF fn = "sendRequest" THEN {"nil", "string", "struct"} ELSE {"nil"}
    /\ options = NewDefaultRetryOptions
    /\ bodyBytes = "nil"
    /\ i = 0
    /\ failures = <<>>
    /\ resp = NoResp
    /\ pc = "start"
    /\ ctxDone = FALSE
    /\ timer = NoTimer
    /\ ret = NoRet
    /\ attempts = 0
    /\ returned = 0
    /\ sent = <<>>
    /\ nWaits = 0
    /\ cancelMark = -1
    /\ unclosed = {}
    /\ NoPair
    /\ NoReader

\* options.complete(retryOpts...) and the capture of the request body (io.ReadAll
\* of a body that newRequest built from memory: the read does not fail).
Begin ==
    /\ pc = "start"
    /\ options' = complete(NewDefaultRetryOptions, retryOpts)
    /\ bodyBytes' = IF reqBody.reader # "nil" THEN reqBody.data ELSE "nil"
    /\ reqBody' = ReadAll(reqBody)
    /\ i' = 0
    /\ pc' = "loop"
    /\ UNCHANGED <<fn, retryOpts, sink, failures, resp, ctxDone, timer, ret,
                   attempts, returned, sent, nWaits, cancelMark, unclosed, rvars, pvars>>

\* Fault: one iteration too many.
LoopCondOffByOne(n, r) == n <= r.Retries + 1

\* the loop condition i <= options.Retries
LoopCond(n, r) == n <= r.Retries

\* Fault: the body rebuilt from the saved bytes once, not on every attempt.
ResetBodyOnce(bytes, cur) ==
    IF bytes # "nil" /\ cur.reader # "buffer"
    THEN [reader |-> "buffer", data |-> bytes, off |-> 0]
    ELSE cur

\* if bodyBytes != nil { req.Body = io.NopCloser(bytes.NewBuffer(bodyBytes)) }
ResetBody(bytes, cur) ==
    IF bytes # "nil" THEN [reader |-> "buffer", data |-> bytes, off |-> 0] ELSE cur

\* The head of an iteration: the body is reset to the saved bytes and the request
\* is handed to HTTPClient.Do.
Do ==
    /\ pc = "loop"
    /\ LoopCond(i, options)
    /\ reqBody' = ResetBody(bodyBytes, reqBody)
    /\ sent' = Append(sent, ResetBody(bodyBytes, reqBody))
    /\ attempts' = attempts + 1
    /\ pc' = "inflight"
    /\ UNCHANGED <<fn, retryOpts, sink, options, bodyBytes, i, failures, resp,
                   ctxDone, timer, ret, returned, nWaits, cancelMark, unclosed, rvars, pvars>>

\* fmt.Sprintf("#%d/%d failed to send request: %v", ...)
SendFailure(n, r, cause) ==
    [try |-> n + 1, of |-> r.Retries + 1, what |-> "send", code |-> 0,
     err |-> [type |-> "url.Error", HTTPStatusCode |-> 0, Message |-> cause]]

\* fmt.Sprintf("#%d/%d error response received: %v", ..., handleErrorResp(resp))
StatusFailure(n, r, rsp) ==
    [try |-> n + 1, of |-> r.Retries + 1, what |-> "status", code |-> rsp.StatusCode,
     err |-> handleErrorResp(rsp)]

\* fmt.Sprintf("exiting due to non-retriable error in try #%d/%d: %d %s", ...)
ExitFailure(n, r, rsp) ==
    [try |-> n + 1, of |-> r.Retries + 1, what |-> "exit", code |-> rsp.StatusCode,
     err |-> [type |-> "none", HTTPStatusCode |-> 0, Message |-> ""]]

\* fmt.Sprintf("exiting due to canceled context after try #%d/%d: %v", ...)
CancelFailure(n, r) ==
    [try |-> n + 1, of |-> r.Retries + 1, what |-> "cancel", code |-> 0,
     err |-> [type |-> "none", HTTPStatusCode |-> 0, Message |-> "context canceled"]]

\* err == nil && !isFailureStatusCode(resp): the call returns its result.
Succeed ==
    /\ pc = "inflight"
    /\ \E rsp \in Responses :
        /\ ~isFailureStatusCode(rsp)
        /\ resp' = rsp
        /\ ret' = IF fn = "sendRequest" THEN decodeResponse(rsp.Body, sink)
                  ELSE [kind |-> "stream", form |-> "streamReader", value |-> rsp.Body,
                        err |-> NoErr]
    /\ reqBody' \in Consumed(reqBody)
    /\ returned' = returned + 1
    /\ unclosed' = IF fn = "sendRequest"
                   THEN unclosed                     \* defer resp.Body.Close()
                   ELSE unclosed \cup {attempts}     \* the body goes to the reader
    /\ pc' = "done"
    /\ UNCHANGED <<fn, retryOpts, sink, options, bodyBytes, i, failures,
                   ctxDone, timer, attempts, sent, nWaits, cancelMark, rvars, pvars>>

\* Fault: a transport failure returned to the caller.
ContinueReturns(n) == [pc |-> "done", i |-> n]

\* the continue statement: on to the loop's post statement i++ and its condition
Continue(n) == [pc |-> "loop", i |-> n + 1]

\* err != nil: the failure is recorded and the loop continues.
SendFailed ==
    /\ pc = "inflight"
    /\ \E cause \in {"connection refused"} \cup
                    (IF ctxDone THEN {"context canceled"} ELSE {}) :
        failures' = Append(failures, SendFailure(i, options, cause))
    /\ resp' = NoResp
    /\ reqBody' \in Consumed(reqBody)
    /\ returned' = returned + 1
    /\ i' = Continue(i).i
    /\ pc' = Continue(i).pc
    /\ UNCHANGED <<fn, retryOpts, sink, options, bodyBytes, ctxDone, timer,
                   ret, attempts, sent, nWaits, cancelMark, unclosed, rvars, pvars>>

\* return fmt.Errorf("request failed on non-retriable status-code: %d %s", ...)
NonRetriableError(rsp) ==
    [kind |-> "nonRetriable", form |-> "error", value |-> "",
     err |-> [type |-> "fmt.Errorf", HTTPStatusCode |-> rsp.StatusCode,
              Message |-> "request failed on non-retriable status-code"]]

\* A failure status the policy does not retry: the call returns.
NonRetriable ==
    /\ pc = "inflight"
    /\ \E rsp \in Responses :
        /\ isFailureStatusCode(rsp)
        /\ ~canRetry(options, rsp.StatusCode)
        /\ resp' = rsp
        /\ failures' = failures \o <<StatusFailure(i, options, rsp),
                                     ExitFailure(i, options, rsp)>>
        /\ ret' = NonRetriableError(rsp)
    /\ reqBody' \in Consumed(reqBody)
    /\ returned' = returned + 1
    /\ unclosed' = unclosed \cup {attempts}   \* handleErrorResp: io.ReadAll, no Close
    /\ pc' = "done"
    /\ UNCHANGED <<fn, retryOpts, sink, options, bodyBytes, i, ctxDone, timer,
                   attempts, sent, nWaits, cancelMark, rvars, pvars>>

\* Fault: no backoff after the last attempt.
BackoffUnlessLast(n, r, jitter) ==
    IF n < r.Retries
    THEN [pc |-> "select", i |-> n,
          timer |-> [armed |-> TRUE, fired |-> FALSE, n |-> n, jitter |-> jitter]]
    ELSE [pc |-> "loop", i |-> n + 1, timer |-> NoTimer]

\* the exponential backoff, entered whatever the attempt index is: the timer of
\* the select is created and the select entered
Backoff(n, r, jitter) ==
    [pc |-> "select", i |-> n,
     timer |-> [armed |-> TRUE, fired |-> FALSE, n |-> n, jitter |-> jitter]]

\* A failure status the policy retries: delay and jitter are computed and the
\* timer of the select is created.
StartBackoff ==
    /\ pc = "inflight"
    /\ \E rsp \in Responses :
        /\ isFailureStatusCode(rsp)
        /\ canRetry(options, rsp.StatusCode)
        /\ resp' = rsp
        /\ failures' = Append(failures, StatusFailure(i, options, rsp))
    /\ \E jitter \in Jitters :
        /\ timer' = Backoff(i, options, jitter).timer
        /\ pc' = Backoff(i, options, jitter).pc
        /\ i' = Backoff(i, options, jitter).i
    /\ reqBody' \in Consumed(reqBody)
    /\ returned' = returned + 1
    /\ unclosed' = unclosed \cup {attempts}   \* handleErrorResp: io.ReadAll, no Close
    /\ UNCHANGED <<fn, retryOpts, sink, options, bodyBytes, ctxDone, ret,
                   attempts, sent, nWaits, cancelMark, rvars, pvars>>

\* Fault: a wait on the timer alone.
SelectCasesTimerOnly == {"timer"}

\* the cases of the select statement
SelectCases == {"done", "timer"}

\* the cases of the select that can proceed
Ready == {c \in SelectCases : (c = "done" /\ ctxDone) \/ (c = "timer" /\ timer.fired)}

\* case <-req.Context().Done()
TakeDone ==
    /\ failures' = IF fn = "sendRequestStream"
                   THEN Append(failures, CancelFailure(i, options)) ELSE failures
    /\ ret' = [kind |-> "canceled", form |-> "error", value |-> "",
               err |-> [type |-> "fmt.Errorf", HTTPStatusCode |-> 0,
                        Message |-> "request failed due to canceled context"]]
    /\ timer' = NoTimer
    /\ pc' = "done"
    /\ UNCHANGED <<i, nWaits>>

\* case <-time.After(delay + jitter), then i++
TakeTimer ==
    /\ nWaits' = nWaits + 1
    /\ timer' = NoTimer
    /\ i' = i + 1
    /\ pc' = "loop"
    /\ UNCHANGED <<failures, ret>>

\* The select is entered: with no case ready the call blocks, otherwise one of the
\* ready cases is taken (any of them when both are ready).
SelectEnter ==
    /\ pc = "select"
    /\ IF Ready = {}
       THEN /\ pc' = "parked"
            /\ UNCHANGED <<failures, ret, timer, i, nWaits>>
       ELSE \E c \in Ready : IF c = "done" THEN TakeDone ELSE TakeTimer
    /\ UNCHANGED <<fn, retryOpts, reqBody, sink, options, bodyBytes, resp, ctxDone,
                   attempts, returned, sent, cancelMark, unclosed, rvars, pvars>>

\* The timer elapses; a call blocked in the select takes the timer case.
TimerFire ==
    /\ pc \in {"select", "parked"}
    /\ timer.armed /\ ~timer.fired
    /\ IF pc = "parked" /\ "timer" \in SelectCases
       THEN TakeTimer
       ELSE /\ timer' = [timer EXCEPT !.fired = TRUE]
            /\ UNCHANGED <<failures, ret, i, nWaits, pc>>
    /\ UNCHANGED <<fn, retryOpts, reqBody, sink, options, bodyBytes, resp, ctxDone,
                   attempts, returned, sent, cancelMark, unclosed, rvars, pvars>>

\* The caller cancels the context (or its deadline passes); a call blocked in the
\* select takes the Done case.
CancelCtx ==
    /\ pc # "done"
    /\ ~ctxDone
    /\ ctxDone' = TRUE
    /\ cancelMark' = IF pc = "parked" THEN attempts ELSE cancelMark
    /\ IF pc = "parked" /\ "done" \in SelectCases
       THEN TakeDone
       ELSE UNCHANGED <<failures, ret, timer, i, nWaits, pc>>
    /\ UNCHANGED <<fn, retryOpts, reqBody, sink, options, bodyBytes, resp,
                   attempts, returned, sent, unclosed, rvars, pvars>>

\* Fault: the first recorded failure reported.
ExceededErrorFirst(f) ==
    IF f = <<>>
    THEN [kind |-> "panic", form |-> "error", value |-> "",
          err |-> [type |-> "runtime", HTTPStatusCode |-> 0,
                   Message |-> "index out of range"]]
    ELSE [kind |-> "exceeded", form |-> "error", value |-> "",
          err |-> [type |-> "fmt.Errorf", HTTPStatusCode |-> 0,
                   Message |-> "request exceeded retry limits"],
          last |-> f[1]]

\* return fmt.Errorf("request exceeded retry limits: %s", failures[len(failures)-1])
ExceededError(f) ==
    IF f = <<>>
    THEN [kind |-> "panic", form |-> "error", value |-> "",
          err |-> [type |-> "runtime", HTTPStatusCode |-> 0,
                   Message |-> "index out of range"]]
    ELSE [kind |-> "exceeded", form |-> "error", value |-> "",
          err |-> [type |-> "fmt.Errorf", HTTPStatusCode |-> 0,
                   Message |-> "request exceeded retry limits"],
          last |-> f[Len(f)]]

\* The loop ends with every attempt used.
LoopExit ==
    /\ pc = "loop"
    /\ ~LoopCond(i, options)
    /\ ret' = ExceededError(failures)
    /\ pc' = "done"
    /\ UNCHANGED <<fn, retryOpts, reqBody, sink, options, bodyBytes, i, failures, resp,
                   ctxDone, timer, attempts, returned, sent, nWaits, cancelMark, unclosed, rvars, pvars>>

Next ==
    \/ Begin
    \/ Do
    \/ Succeed
    \/ SendFailed
    \/ NonRetriable
    \/ StartBackoff
    \/ SelectEnter
    \/ TimerFire
    \/ CancelCtx
    \/ LoopExit

Spec == Init /\ [][Next]_vars

\* ------------------------------------------------------------------ a long attempt budget

\* A call with the single override {Retries: LongRetries}.
InitLong ==
    /\ fn \in {"sendRequest", "sendRequestStream"}
    /\ retryOpts = <<[Retries |-> LongRetries, RetryAboveCode |-> 0, RetryCodes |-> <<>>]>>
    /\ reqBody = NoBody
    /\ sink = "nil"
    /\ options = NewDefaultRetryOptions
    /\ bodyBytes = "nil"
    /\ i = 0
    /\ failures = <<>>
    /\ resp = NoResp
    /\ pc = "start"
    /\ ctxDone = FALSE
    /\ timer = NoTimer
    /\ ret = NoRet
    /\ attempts = 0
    /\ returned = 0
    /\ sent = <<>>
    /\ nWaits = 0
    /\ cancelMark = -1
    /\ unclosed = {}
    /\ NoPair
    /\ NoReader

\* The call against a transport that cannot connect until the last two attempts,
\* and answers as it likes from then on (no status is below the default
\* RetryAboveCode, so no failure status ends the call).
NextLong ==
    \/ Begin
    \/ Do
    \/ SendFailed
    \/ /\ i >= LongRetries - 1
       /\ \/ Succeed
          \/ StartBackoff
          \/ SelectEnter
          \/ TimerFire
          \/ CancelCtx
          \/ LoopExit

SpecLong == InitLong /\ [][NextLong]_vars

\* ------------------------------------------------------------------ merging retry options

\* The override fragments a caller can build: any int for Retries and
\* RetryAboveCode, any list for RetryCodes.
MergeFragments ==
    [Retries : -1..MaxRetries, RetryAboveCode : {-1, 0, 599},
     RetryCodes : {<<>>, <<503>>, <<503, 503>>, <<429, 503>>}]

MergeChoices == UNION {[1..n -> MergeFragments] : n \in 0..MaxFragments}

\* A call with any list of override fragments.
InitMerge ==
    /\ fn \in {"sendRequest", "sendRequestStream"}
    /\ retryOpts \in MergeChoices
    /\ reqBody = NoBody
    /\ sink = "nil"
    /\ options = NewDefaultRetryOptions
    /\ bodyBytes = "nil"
    /\ i = 0
    /\ failures = <<>>
    /\ resp = NoResp
    /\ pc = "start"
    /\ ctxDone = FALSE
    /\ timer = NoTimer
    /\ ret = NoRet
    /\ attempts = 0
    /\ returned = 0
    /\ sent = <<>>
    /\ nWaits = 0
    /\ cancelMark = -1
    /\ unclosed = {}
    /\ NoPair
    /\ NoReader

\* The call up to its merged options.
NextMerge == Begin

SpecMerge == InitMerge /\ [][NextMerge]_vars


\* ------------------------------------------------------------------ stream reader

\* A line of the body is the sequence of the pieces of text it is made of.
TSp == " "
TData == "data:"
TErrOpen == "{\"error\":"
TBoom == "{\"message\":\"boom\"}}"
TDone == "[DONE]"
TP1 == "{\"id\":\"1\"}"
TP2 == "{\"id\":\"2\"}"
TBad == "{\"id\":"
TPing == ": ping"

headerData == <<TData, TSp>>
errorPrefix == <<TData, TSp, TErrOpen>>

\* The lines a body is made of (without the '\n' that ends them).
LData1 == <<TData, TSp, TP1>>
LData2 == <<TSp, TData, TSp, TP2, TSp>>
LDone == <<TData, TSp, TDone>>
LErr == <<TData, TSp, TErrOpen, TBoom>>
LBad == <<TData, TSp, TBad>>
LEmpty == <<>>
LPing == <<TPing>>
LNoSpace == <<TData, TP1>>
LObj == <<TP1>>

BodyLines == {LData1, LData2, LDone, LErr, LBad, LEmpty, LPing, LNoSpace, LObj}

RECURSIVE TrimLeft(_)
TrimLeft(s) == IF s # <<>> /\ Head(s) = TSp THEN TrimLeft(Tail(s)) ELSE s

RECURSIVE TrimRight(_)
TrimRight(s) ==
    IF s # <<>> /\ s[Len(s)] = TSp THEN TrimRight(SubSeq(s, 1, Len(s) - 1)) ELSE s

\* bytes.TrimSpace
TrimSpace(s) == TrimRight(TrimLeft(s))

\* bytes.HasPrefix
HasPrefix(s, prefix) == Len(s) >= Len(prefix) /\ SubSeq(s, 1, Len(prefix)) = prefix

\* bytes.TrimPrefix
TrimPrefix(s, prefix) ==
    IF HasPrefix(s, prefix) THEN SubSeq(s, Len(prefix) + 1, Len(s)) ELSE s

\* stream.reader.ReadBytes('\n') with n lines consumed before: the line, the read
\* error ("nil" for none) and the lines consumed after. The last line of a body
\* that does not end in '\n' comes with the error the body ends with.
ReadBytes(n) ==
    IF n < Len(lines)
    THEN [line |-> lines[n + 1],
          err  |-> IF n + 1 < Len(lines) \/ lastTerminated THEN "nil" ELSE closeErr,
          pos  |-> n + 1]
    ELSE [line |-> <<>>, err |-> closeErr, pos |-> n]

\* json.Unmarshal(errBytes, &errResp) in unmarshalError: nonNil is errResp != nil,
\* hasError is errResp.Error != nil.
unmarshalError(buf) ==
    CASE buf = <<>>              -> [nonNil |-> FALSE, hasError |-> FALSE, Message |-> ""]
      [] buf = <<TErrOpen, TBoom>> -> [nonNil |-> TRUE, hasError |-> TRUE, Message |-> "boom"]
      [] buf \in {<<TP1>>, <<TP2>>} -> [nonNil |-> TRUE, hasError |-> FALSE, Message |-> ""]
      [] OTHER                   -> [nonNil |-> FALSE, hasError |-> FALSE, Message |-> ""]

\* Fault: every payload decoded as the first one.
UnmarshalResponseStale(text) ==
    LET t == TrimLeft(text)
    IN  CASE t \in {<<TP1>>, <<TP2>>} -> [ok |-> TRUE, ID |-> "1"]
          [] OTHER                   -> [ok |-> FALSE, ID |-> ""]

\* json.Unmarshal(noPrefixLine, &response): JSON text may start with white space
UnmarshalResponse(text) ==
    LET t == TrimLeft(text)
    IN  CASE t = <<TP1>> -> [ok |-> TRUE, ID |-> "1"]
          [] t = <<TP2>> -> [ok |-> TRUE, ID |-> "2"]
          [] OTHER       -> [ok |-> FALSE, ID |-> ""]

\* What a Recv call returns: a response, or the zero response with an error
\* (kind "EOF" is io.EOF, "zero" is the zero response with a nil error).
Payload(id) == [kind |-> "payload", ID |-> id, err |-> NoErr]
ErrEOF == [kind |-> "EOF", ID |-> "", err |-> [type |-> "io", HTTPStatusCode |-> 0, Message |-> "EOF"]]
ReadError(e) ==
    IF e = "EOF" THEN ErrEOF
    ELSE IF e = "nil" THEN [kind |-> "zero", ID |-> "", err |-> NoErr]
    ELSE [kind |-> "error", ID |-> "", err |-> [type |-> "io", HTTPStatusCode |-> 0, Message |-> e]]
ErrTooManyEmptyStreamMessages ==
    [kind |-> "error", ID |-> "",
     err |-> [type |-> "ErrTooManyEmptyStreamMessages", HTTPStatusCode |-> 0,
              Message |-> "stream has sent too many empty messages"]]
UnmarshalErr ==
    [kind |-> "error", ID |-> "",
     err |-> [type |-> "json", HTTPStatusCode |-> 0, Message |-> "invalid character"]]
\* fmt.Errorf("error, %w", respErr.Error)
RespError(e) ==
    [kind |-> "error", ID |-> "",
     err |-> [type |-> "APIError", HTTPStatusCode |-> 0,
              Message |-> IF e.hasError THEN e.Message ELSE "<nil>"]]

\* Fault: the limit compared with >=.
ExceedsLimitOffByOne(count, limit) == count >= limit

\* emptyMessagesCount > stream.emptyMessagesLimit
ExceedsLimit(count, limit) == count > limit

\* Fault: the terminal state is not recorded.
SentinelNotRecorded(n, buf) ==
    [isFinished |-> FALSE, errBuffer |-> buf, pos |-> n, ret |-> ErrEOF]

\* the sentinel branch: stream.isFinished = true; return io.EOF
Sentinel(n, buf) ==
    [isFinished |-> TRUE, errBuffer |-> buf, pos |-> n, ret |-> ErrEOF]

\* Fault: the accumulated buffer never decoded.
AccumulatedErrorIgnored(rd, buf) ==
    [isFinished |-> FALSE, errBuffer |-> buf, pos |-> rd.pos, ret |-> ReadError(rd.err)]

\* Fault: the line read after an error-lead line left in the body for the next call.
AccumulatedErrorUnreads(rd, buf) ==
    LET respErr == unmarshalError(buf)
    IN  [isFinished |-> FALSE, errBuffer |-> buf,
         pos |-> IF rd.err = "nil" THEN rd.pos - 1 ELSE rd.pos,
         ret |-> IF respErr.nonNil THEN RespError(respErr) ELSE ReadError(rd.err)]

\* the branch taken on a read error or after an error-lead line: the accumulated
\* buffer is decoded, and the read error returned when it is no error envelope
AccumulatedError(rd, buf) ==
    LET respErr == unmarshalError(buf)
    IN  [isFinished |-> FALSE, errBuffer |-> buf, pos |-> rd.pos,
         ret |-> IF respErr.nonNil THEN RespError(respErr) ELSE ReadError(rd.err)]

RECURSIVE processLines(_, _, _, _)
\* The loop of processLines, with n lines consumed, the error buffer buf, and the
\* locals emptyMessagesCount and hasErrorPrefix. The value is the reader's state
\* and the call's result when the loop returns.
processLines(n, buf, emptyMessagesCount, hasErrorPrefix) ==
    LET rd == ReadBytes(n)
    IN  IF rd.err # "nil" \/ hasErrorPrefix
        THEN AccumulatedError(rd, buf)
        ELSE
          LET noSpaceLine == TrimSpace(rd.line)
              hasErr == hasErrorPrefix \/ HasPrefix(noSpaceLine, errorPrefix)
          IN  IF ~HasPrefix(noSpaceLine, headerData) \/ hasErr
              THEN LET written == IF hasErr THEN TrimPrefix(noSpaceLine, headerData)
                                  ELSE noSpaceLine
                       buf2 == buf \o written
                   IN  IF ExceedsLimit(emptyMessagesCount + 1, emptyMessagesLimit)
                       THEN [isFinished |-> FALSE, errBuffer |-> buf2, pos |-> rd.pos,
                             ret |-> ErrTooManyEmptyStreamMessages]
                       ELSE processLines(rd.pos, buf2, emptyMessagesCount + 1, hasErr)
              ELSE LET noPrefixLine == TrimPrefix(noSpaceLine, headerData)
                       response == UnmarshalResponse(noPrefixLine)
                   IN  IF noPrefixLine = <<TDone>> THEN Sentinel(rd.pos, buf)
                       ELSE [isFinished |-> FALSE, errBuffer |-> buf, pos |-> rd.pos,
                             ret |-> IF response.ok THEN Payload(response.ID)
                                     ELSE UnmarshalErr]

\* The result of a Recv call, with the lines it consumed: those after from, up to to.
Received(r, from, to) == [kind |-> r.kind, ID |-> r.ID, err |-> r.err, from |-> from, to |-> to]

\* The dispatcher's variables once sendRequestStream has returned a reader on its
\* first attempt.
StreamReturned ==
    /\ fn = "sendRequestStream"
    /\ retryOpts = <<>>
    /\ reqBody = [reader |-> "buffer", data |-> RequestBody, off |-> BodyLen]
    /\ sink = "nil"
    /\ options = NewDefaultRetryOptions
    /\ bodyBytes = RequestBody
    /\ i = 0
    /\ failures = <<>>
    /\ resp = [StatusCode |-> 200, Body |-> "stream"]
    /\ pc = "done"
    /\ ctxDone = FALSE
    /\ timer = NoTimer
    /\ ret = [kind |-> "stream", form |-> "streamReader", value |-> "stream", err |-> NoErr]
    /\ attempts = 1
    /\ returned = 1
    /\ sent = <<[reader |-> "buffer", data |-> RequestBody, off |-> 0]>>
    /\ nWaits = 0
    /\ cancelMark = -1
    /\ unclosed = {1}
    /\ NoPair

Bodies == UNION {[1..n -> BodyLines] : n \in 0..MaxLines}

\* A reader as sendRequestStream constructs it, over some body.
InitReader ==
    /\ StreamReturned
    /\ lines \in Bodies
    /\ lastTerminated \in BOOLEAN
    /\ closeErr \in {"EOF", "unexpected EOF"}
    /\ emptyMessagesLimit \in 0..MaxLimit
    /\ isFinished = FALSE
    /\ errBuffer = <<>>
    /\ pos = 0
    /\ recvs = <<>>
    /\ closed = FALSE

\* Fault: the count kept across calls, every noise line read so far counting.
emptyMessagesCountKept ==
    Cardinality({j \in 1..pos : ~HasPrefix(TrimSpace(lines[j]), headerData)})

\* var emptyMessagesCount uint, a local of processLines: zero when a call starts
emptyMessagesCountAtCall == 0

\* Fault: the finished flag not consulted.
RecvIgnoresFinished ==
    /\ ret.kind = "stream"
    /\ ~closed
    /\ Len(recvs) < MaxRecvs
    /\ isFinished
    /\ LET r == processLines(pos, errBuffer, 0, FALSE)
       IN  /\ isFinished' = r.isFinished
           /\ errBuffer' = r.errBuffer
           /\ pos' = r.pos
           /\ recvs' = Append(recvs, Received(r.ret, pos, r.pos))
    /\ UNCHANGED <<dvars, pvars, unclosed, lines, lastTerminated, closeErr, emptyMessagesLimit, closed>>

\* Recv on a finished reader: io.EOF, and nothing is read.
RecvFinished ==
    /\ ret.kind = "stream"
    /\ ~closed
    /\ Len(recvs) < MaxRecvs
    /\ isFinished
    /\ recvs' = Append(recvs, Received(ErrEOF, pos, pos))
    /\ UNCHANGED <<dvars, pvars, unclosed, lines, lastTerminated, closeErr, emptyMessagesLimit,
                   isFinished, errBuffer, pos, closed>>

\* Recv on a reader that is not finished: processLines runs.
RecvProcess ==
    /\ ret.kind = "stream"
    /\ ~closed
    /\ Len(recvs) < MaxRecvs
    /\ ~isFinished
    /\ LET r == processLines(pos, errBuffer, emptyMessagesCountAtCall, FALSE)
       IN  /\ isFinished' = r.isFinished
           /\ errBuffer' = r.errBuffer
           /\ pos' = r.pos
           /\ recvs' = Append(recvs, Received(r.ret, pos, r.pos))
    /\ UNCHANGED <<dvars, pvars, unclosed, lines, lastTerminated, closeErr, emptyMessagesLimit, closed>>

\* Close: the response body is closed; the reader's fields are left as they are.
\* The reader is followed up to its Close.
Close ==
    /\ ret.kind = "stream"
    /\ ~closed
    /\ closed' = TRUE
    /\ unclosed' = unclosed \ {attempts}
    /\ UNCHANGED <<dvars, pvars, lines, lastTerminated, closeErr, emptyMessagesLimit,
                   isFinished, errBuffer, pos, recvs>>

NextReader == RecvFinished \/ RecvProcess \/ Close

SpecReader == InitReader /\ [][NextReader]_vars

\* ------------------------------------------------------------------ a pair of calls

\* What the environment does at one attempt: the transport fails (err) or answers
\* with resp, and, should the call then wait, the timer alone becomes ready
\* ("timer"), the context is cancelled before the timer ("cancel"), or both are
\* ready when the select looks at its cases ("both").
PairResponses ==
    {[StatusCode |-> 200, Body |-> OkJSON],
     [StatusCode |-> 400, Body |-> EnvBoom],
     [StatusCode |-> 503, Body |-> EnvBoom]}

Events ==
    [err : {TRUE}, resp : {NoResp}, wait : {"timer", "cancel", "both"}]
    \cup [err : {FALSE}, resp : PairResponses, wait : {"timer", "cancel", "both"}]

Scripts == [1..(MaxRetries + 1) -> Events]

\* The cases a select over cases can take: a cancelled context stays cancelled,
\* and of several ready cases any one is taken.
Chosen(cases, wait, done) ==
    {c \in cases : \/ c = "done" /\ (done \/ wait \in {"cancel", "both"})
                   \/ c = "timer" /\ (wait = "both" \/ (wait = "timer" /\ ~done))}

\* A run so far: transport calls made, the attempt indexes whose backoff ran to
\* the timer, the kinds of the failures recorded, the context cancelled.
NoRun == [attempts |-> 0, waits |-> <<>>, failures |-> <<>>, ctxDone |-> FALSE]

\* A finished run.
Ended(class, st) ==
    [class |-> class, attempts |-> st.attempts, waits |-> st.waits,
     failures |-> st.failures]

RECURSIVE sendRequestLoop(_, _, _, _)
\* The attempt loop of sendRequest from index n on: the runs it can make.
sendRequestLoop(r, sc, n, st) ==
    IF ~(n <= r.Retries)
    THEN {Ended(IF st.failures = <<>> THEN "panic" ELSE "exhausted", st)}
    ELSE LET e == sc[n + 1]
             at == [st EXCEPT !.attempts = st.attempts + 1]
         IN  IF ~e.err /\ ~isFailureStatusCode(e.resp)
             THEN {Ended("success", at)}
             ELSE IF e.err
             THEN sendRequestLoop(r, sc, n + 1,
                                  [at EXCEPT !.failures = Append(st.failures, "send")])
             ELSE LET f == [at EXCEPT !.failures = Append(st.failures, "status")]
                  IN  IF ~canRetry(r, e.resp.StatusCode)
                      THEN {Ended("nonRetriable",
                                  [f EXCEPT !.failures = Append(f.failures, "exit")])}
                      ELSE UNION {IF c = "done"
                                  THEN {Ended("canceled", f)}
                                  ELSE sendRequestLoop(r, sc, n + 1,
                                           [f EXCEPT !.waits = Append(f.waits, n),
                                                     !.ctxDone = f.ctxDone \/ e.wait = "both"])
                                  : c \in Chosen({"done", "timer"}, e.wait, f.ctxDone)}

\* Fault: the streaming loop stops one attempt short.
StreamLoopCondStrict(n, r) == n < r.Retries

\* i <= options.Retries, the condition of the attempt loop of sendRequestStream
StreamLoopCond(n, r) == n <= r.Retries

RECURSIVE sendRequestStreamLoop(_, _, _, _)
\* The attempt loop of sendRequestStream from index n on: the runs it can make.
sendRequestStreamLoop(r, sc, n, st) ==
    IF ~StreamLoopCond(n, r)
    THEN {Ended(IF st.failures = <<>> THEN "panic" ELSE "exhausted", st)}
    ELSE LET e == sc[n + 1]
             at == [st EXCEPT !.attempts = st.attempts + 1]
         IN  IF ~e.err /\ ~isFailureStatusCode(e.resp)
             THEN {Ended("success", at)}
             ELSE IF e.err
             THEN sendRequestStreamLoop(r, sc, n + 1,
                                        [at EXCEPT !.failures = Append(st.failures, "send")])
             ELSE LET f == [at EXCEPT !.failures = Append(st.failures, "status")]
                  IN  IF ~canRetry(r, e.resp.StatusCode)
                      THEN {Ended("nonRetriable",
                                  [f EXCEPT !.failures = Append(f.failures, "exit")])}
                      ELSE UNION {IF c = "done"
                                  THEN {Ended("canceled",
                                              [f EXCEPT !.failures = Append(f.failures, "cancel")])}
                                  ELSE sendRequestStreamLoop(r, sc, n + 1,
                                           [f EXCEPT !.waits = Append(f.waits, n),
                                                     !.ctxDone = f.ctxDone \/ e.wait = "both"])
                                  : c \in Chosen({"done", "timer"}, e.wait, f.ctxDone)}

\* Two calls, one of each dispatcher, with the same retry options, about to be
\* made against the same script.
InitPair ==
    /\ fn = "sendRequest"
    /\ retryOpts \in OptChoices
    /\ reqBody = NoBody
    /\ sink = "nil"
    /\ options = NewDefaultRetryOptions
    /\ bodyBytes = "nil"
    /\ i = 0
    /\ failures = <<>>
    /\ resp = NoResp
    /\ pc = "start"
    /\ ctxDone = FALSE
    /\ timer = NoTimer
    /\ ret = NoRet
    /\ attempts = 0
    /\ returned = 0
    /\ sent = <<>>
    /\ nWaits = 0
    /\ cancelMark = -1
    /\ unclosed = {}
    /\ NoReader
    /\ script \in Scripts
    /\ buffered = {}
    /\ streamed = {}

\* Both calls are made: each merges the options and runs its loop from i = 0.
RunBoth ==
    /\ buffered = {} /\ streamed = {}
    /\ buffered' = sendRequestLoop(complete(NewDefaultRetryOptions, retryOpts),
                                   script, 0, NoRun)
    /\ streamed' = sendRequestStreamLoop(complete(NewDefaultRetryOptions, retryOpts),
                                         script, 0, NoRun)
    /\ UNCHANGED <<dvars, unclosed, rvars, script>>

NextPair == RunBoth

SpecPair == InitPair /\ [][NextPair]_vars

\* ------------------------------------------------------------------ properties of a dispatch call

\* A status is retry-eligible when it is strictly above retryAboveCode or is
\* one of retryCodes.
Eligible(r, code) == code > r.RetryAboveCode \/ code \in {r.RetryCodes[k] : k \in 1..Len(r.RetryCodes)}

\* every failure recorded so far is a failure status (no transport failure)
OnlyStatusFailures == \A k \in 1..Len(failures) : failures[k].what = "status"

\* the call returned the result of a response with a status in [200,400)
ReturnedSuccess == pc = "done" /\ ret.kind \in {"ok", "decodeError", "stream"}

\* the result carries the body of the last response, decoded as the sink asks
DecodedLastBody ==
    IF fn = "sendRequestStream" THEN ret.kind = "stream" /\ ret.value = resp.Body
    ELSE CASE sink = "nil" -> ret.kind = "ok" /\ ret.form = "none"
           [] sink = "string" -> ret.kind = "ok" /\ ret.form = "text" /\ ret.value = resp.Body
           [] OTHER -> resp.Body = OkJSON =>
                           ret.kind = "ok" /\ ret.form = "json" /\ ret.value = OkJSON

\* C1: when the first k attempts end in a retry-eligible failure status and attempt
\* k+1 in a status in [200,400), the call makes exactly k+1 attempts, waits exactly
\* k times, the wait after attempt i lasting at least base*2^i, and returns the
\* decoded body of the last response ({retries:2, retryCodes:[503]} against
\* 503, 503, 200: three attempts, the 200 body).
C1_RetryThenSuccess ==
    /\ [](ReturnedSuccess /\ OnlyStatusFailures =>
            /\ Len(failures) <= options.Retries
            /\ \A k \in 1..Len(failures) : Eligible(options, failures[k].code)
            /\ attempts = Len(failures) + 1
            /\ nWaits = Len(failures)
            /\ resp.StatusCode >= 200 /\ resp.StatusCode < 400
            /\ DecodedLastBody)
    /\ [][nWaits' = nWaits + 1 /\ OnlyStatusFailures =>
            /\ timer.n = i /\ i = nWaits /\ attempts = i + 1
            /\ GeExact(BackoffDuration(timer.n, timer.jitter), ExactDelay(i))]_vars

C1_Witness ==
    /\ pc = "done" /\ fn = "sendRequest" /\ sink = "struct"
    /\ retryOpts = <<[Retries |-> 2, RetryAboveCode |-> 0, RetryCodes |-> <<503>>]>>
    /\ Len(failures) = 2 /\ failures[1].code = 503 /\ failures[2].code = 503
    /\ resp.StatusCode = 200 /\ attempts = 3 /\ nWaits = 2
    /\ ret.kind = "ok" /\ ret.value = OkJSON

\* C2: with the single override {retries:2}, against a transport that answers 400,
\* the call (not cancelled) makes exactly one attempt and returns the classified
\* status failure, with no backoff wait.
C2_Default400Fatal ==
    (/\ retryOpts = <<[Retries |-> 2, RetryAboveCode |-> 0, RetryCodes |-> <<>>]>>
     /\ pc = "done" /\ ~ctxDone
     /\ resp.StatusCode = 400
     /\ \A k \in 1..Len(failures) : failures[k].what \in {"status", "exit"}
                                     /\ failures[k].code = 400)
    => /\ attempts = 1
       /\ nWaits = 0
       /\ ret.kind = "nonRetriable"
       /\ ret.err = failures[1].err

\* C3: a cancellation that arrives while the call is blocked in the backoff select
\* ends the call with the cancellation error, and the transport is not called again.
C3_CancelInBackoff ==
    cancelMark # -1 =>
        /\ pc = "done"
        /\ ret.kind = "canceled"
        /\ attempts = cancelMark
        /\ attempts = i + 1

C3_Witness ==
    /\ cancelMark # -1 /\ pc = "done" /\ ret.kind = "canceled"
    /\ i < options.Retries /\ attempts = i + 1

\* C7: a call makes at least one and at most retries+1 transport calls, one at a
\* time: a transport call starts only when the one before has returned and no
\* backoff is pending, and its attempt index is at most retries.
C7_AttemptBudget ==
    /\ [](/\ attempts <= options.Retries + 1
          /\ attempts - returned = (IF pc = "inflight" THEN 1 ELSE 0)
          /\ (pc = "inflight" => i <= options.Retries /\ attempts = i + 1)
          /\ (pc = "done" => attempts >= 1))
    /\ [][attempts' # attempts =>
            /\ attempts' = attempts + 1
            /\ pc = "loop" /\ returned = attempts /\ ~timer.armed]_vars

C7_Witness ==
    /\ pc = "done" /\ options.Retries = 2 /\ attempts = 3 /\ nWaits >= 1
    /\ ret.kind = "exceeded"

\* the waits that ran before the failure recorded at index k
WaitsBefore(k) == Cardinality({j \in 1..(k - 1) : failures[j].what = "status"})

\* C8: a failure status that is not retry-eligible ends the call at that attempt,
\* with no backoff wait and no further transport call.
C8_IneligibleStatusEnds ==
    \A k \in 1..Len(failures) :
        (failures[k].what = "status" /\ ~Eligible(options, failures[k].code)) =>
            /\ pc = "done"
            /\ ret.kind = "nonRetriable"
            /\ attempts = failures[k].try
            /\ nWaits = WaitsBefore(k)
            /\ ~timer.armed

C8_Witness ==
    /\ pc = "done" /\ ret.kind = "nonRetriable"
    /\ options.Retries = 2 /\ attempts = 2 /\ nWaits = 1
    /\ resp.StatusCode = 400 /\ ~Eligible(options, 400)

\* C9: the error returned on a failure status that is not retry-eligible is the
\* classified error of that response (its status code with the envelope's
\* message, or with the raw body).
C9_ReturnsClassifiedError ==
    (pc = "done" /\ ret.kind = "nonRetriable") => ret.err = handleErrorResp(resp)

\* C10: a transport call that fails because the context is cancelled ends the call
\* with the cancellation error and no further attempt, whatever budget remains.
C10_CancelInTransport ==
    \A k \in 1..Len(failures) :
        (/\ pc = "done"
         /\ failures[k].what = "send"
         /\ failures[k].err.Message = "context canceled"
         /\ failures[k].try <= options.Retries) =>
            /\ ret.kind = "canceled"
            /\ attempts = failures[k].try

\* the failure recorded last
LastFailure == failures[Len(failures)]

\* the step records a transport failure
RecordsSendFailure ==
    /\ Len(failures') = Len(failures) + 1
    /\ failures'[Len(failures')].what = "send"

\* C11: a transport failure is followed at once by the loop's next iteration, with
\* no backoff wait and whatever the policy says of status codes: with the attempt
\* index below retries the next transport call is the only way on, and a call
\* whose last recorded failure is a transport failure ended in a later success or
\* with every attempt used.
C11_TransportFailureRetried ==
    /\ [][RecordsSendFailure =>
            /\ pc = "inflight" /\ pc' = "loop"
            /\ i' = i + 1 /\ attempts = i + 1
            /\ nWaits' = nWaits /\ ~timer'.armed
            /\ ret' = NoRet
            /\ (i < options.Retries => i' <= options.Retries)]_vars
    /\ [][(pc = "loop" /\ i <= options.Retries /\ pc' # pc) =>
            /\ pc' = "inflight"
            /\ attempts' = attempts + 1
            /\ nWaits' = nWaits]_vars
    /\ []((pc = "done" /\ failures # <<>> /\ LastFailure.what = "send") =>
            \/ ReturnedSuccess
            \/ ret.kind = "exceeded" /\ attempts = options.Retries + 1)

C11_Witness ==
    /\ pc = "done" /\ ret.kind = "exceeded"
    /\ options = [Retries |-> 2, RetryAboveCode |-> 599, RetryCodes |-> <<>>]
    /\ Len(failures) = 3 /\ \A k \in 1..3 : failures[k].what = "send"
    /\ attempts = 3 /\ nWaits = 0

\* C12: when the loop ends with every attempt used, the list of recorded failures
\* is not empty, holds one entry per attempt made, and the error returned carries
\* its last entry, the failure of attempt retries+1; this for every merged policy.
C12_ExhaustedReferencesLast ==
    /\ ret.kind # "panic"
    /\ (pc = "loop" /\ i > options.Retries) =>
           /\ failures # <<>>
           /\ Len(failures) = options.Retries + 1
    /\ (pc = "done" /\ ret.kind = "exceeded") =>
           /\ failures # <<>>
           /\ attempts = options.Retries + 1
           /\ Len(failures) = attempts
           /\ \A k \in 1..Len(failures) :
                  failures[k].try = k /\ failures[k].what \in {"send", "status"}
           /\ ret.last = LastFailure
           /\ ret.last.try = options.Retries + 1

C12_Witness ==
    /\ pc = "done" /\ ret.kind = "exceeded" /\ options.Retries = 2
    /\ Len(failures) = 3
    /\ failures[1].what = "status" /\ failures[3].what = "send"
    /\ ret.last = failures[3]

\* the body a transport call is handed when the saved bytes are b
FreshBody(b) == IF b # "nil" THEN [reader |-> "buffer", data |-> b, off |-> 0] ELSE NoBody

\* C13: the request body is read once, before the first attempt; every attempt is
\* handed a body over the saved bytes with nothing read from it, however much the
\* transport read at earlier attempts; the saved bytes never change, and the
\* reader the caller supplied is not read after the capture.
C13_BodyReplayed ==
    /\ [](\A k \in 1..Len(sent) : sent[k] = FreshBody(bodyBytes))
    /\ [](pc # "start" => (reqBody.reader = "caller" => reqBody.off = BodyLen))
    /\ [][(pc = "start" /\ pc' # "start") =>
            /\ reqBody.off = 0
            /\ bodyBytes' = (IF reqBody.reader = "nil" THEN "nil" ELSE reqBody.data)]_vars
    /\ [][pc # "start" =>
            /\ bodyBytes' = bodyBytes
            /\ (reqBody.reader = "caller" =>
                    reqBody' = reqBody \/ reqBody'.reader = "buffer")]_vars

C13_Witness ==
    /\ pc = "inflight" /\ attempts = 3 /\ Len(sent) = 3
    /\ bodyBytes = RequestBody
    /\ \A k \in 1..3 : sent[k] = [reader |-> "buffer", data |-> RequestBody, off |-> 0]
    /\ reqBody.off = 0

\* C18: in the backoff select, once the context is cancelled the timer case is not
\* taken: the call leaves the select with the cancellation error and makes no
\* further attempt, also when the timer is ready as well.
C18_CancelHasPriority ==
    [][(ctxDone /\ pc = "select" /\ pc' # pc) =>
        /\ nWaits' = nWaits
        /\ pc' = "done"
        /\ ret'.kind = "canceled"
        /\ attempts' = attempts]_vars

\* base as an exact value
ExactBase == ToLimbs(baseDelay, WideLimbs)

\* C19: the duration d of every backoff wait, taken at attempt index n, satisfies
\* base*2^n <= d < base*2^n + base, and so is positive.
C19_BackoffWithinBounds ==
    timer.armed =>
        LET d == BackoffDuration(timer.n, timer.jitter)
        IN  /\ timer.n = i /\ i <= options.Retries
            /\ GeExact(d, ExactDelay(timer.n))
            /\ LtExact(d, AddInt64(ExactDelay(timer.n), ExactBase))
            /\ ~IsNegative(d) /\ ~IsZero(d)

\* the failure statuses recorded so far, the one of a non-retriable exit included
StatusFailureCount == Cardinality({k \in 1..Len(failures) : failures[k].what = "status"})

\* C23: a backoff follows every retry-eligible failure status, also on the last
\* attempt (i = Retries): the select is entered with the timer of index i; from
\* the last wait the call goes on only by the timer, to the loop's end and the
\* exceeded error, or by Done, to the cancellation error; a call that ends
\* exceeded has waited once per failure status, and a cancellation arriving in
\* the last wait ends the call with the cancellation error.
C23_BackoffAfterLastAttempt ==
    /\ []((pc = "done" /\ ret.kind = "exceeded") => nWaits = StatusFailureCount)
    /\ []((cancelMark # -1 /\ cancelMark = options.Retries + 1) =>
            pc = "done" /\ ret.kind = "canceled")
    /\ [][(Len(failures') = Len(failures) + 1 /\ failures'[Len(failures')].what = "status") =>
            /\ pc' = "select" /\ i' = i
            /\ timer'.armed /\ ~timer'.fired /\ timer'.n = i]_vars
    /\ [][(pc \in {"select", "parked"} /\ i = options.Retries
            /\ pc' \notin {"select", "parked"}) =>
            \/ pc' = "loop" /\ i' = i + 1 /\ nWaits' = nWaits + 1 /\ ret' = NoRet
            \/ pc' = "done" /\ ret'.kind = "canceled" /\ ctxDone']_vars
    /\ [][(ret.kind # "exceeded" /\ ret'.kind = "exceeded") =>
            /\ pc = "loop" /\ i = options.Retries + 1
            /\ ~timer.armed]_vars

C23_Witness ==
    /\ pc = "done" /\ ret.kind = "canceled"
    /\ options.Retries = 2 /\ attempts = 3 /\ i = 2
    /\ cancelMark = 3 /\ nWaits = 2 /\ StatusFailureCount = 3

\* C24: when the call has returned, no response body is open other than the one
\* of the successful response handed to the returned stream reader.
C24_BodiesClosed ==
    pc = "done" => unclosed \subseteq (IF ret.kind = "stream" THEN {attempts} ELSE {})

\* ------------------------------------------------------------------ properties of the merge

Range(s) == {s[k] : k \in 1..Len(s)}

RECURSIVE LastPositiveRetries(_, _)
\* Retries of the last fragment that has it positive, d when there is none
LastPositiveRetries(opts, d) ==
    IF opts = <<>> THEN d
    ELSE IF opts[Len(opts)].Retries > 0 THEN opts[Len(opts)].Retries
    ELSE LastPositiveRetries(SubSeq(opts, 1, Len(opts) - 1), d)

RECURSIVE LastPositiveAbove(_, _)
\* RetryAboveCode of the last fragment that has it positive, d when there is none
LastPositiveAbove(opts, d) ==
    IF opts = <<>> THEN d
    ELSE IF opts[Len(opts)].RetryAboveCode > 0 THEN opts[Len(opts)].RetryAboveCode
    ELSE LastPositiveAbove(SubSeq(opts, 1, Len(opts) - 1), d)

\* C17: merging the fragments in order onto the default, Retries and RetryAboveCode
\* are each the last positive value given (the default with none), RetryCodes is
\* the union of the codes given; Retries >= 0, RetryCodes has no duplicate, and
\* merging a fragment again right after it was merged changes nothing.
C17_MergeRule ==
    pc # "start" =>
        /\ options.Retries =
               LastPositiveRetries(retryOpts, NewDefaultRetryOptions.Retries)
        /\ options.RetryAboveCode =
               LastPositiveAbove(retryOpts, NewDefaultRetryOptions.RetryAboveCode)
        /\ Range(options.RetryCodes) =
               UNION {Range(retryOpts[k].RetryCodes) : k \in 1..Len(retryOpts)}
        /\ options.Retries >= 0
        /\ Cardinality(Range(options.RetryCodes)) = Len(options.RetryCodes)
        /\ \A k \in 1..Len(retryOpts) :
               LET merged == complete(NewDefaultRetryOptions, SubSeq(retryOpts, 1, k))
               IN  complete(merged, <<retryOpts[k]>>) = merged

C17_Witness ==
    /\ pc = "loop"
    /\ retryOpts = <<[Retries |-> 2, RetryAboveCode |-> 599, RetryCodes |-> <<429, 503>>],
                     [Retries |-> -1, RetryAboveCode |-> 0, RetryCodes |-> <<503, 503>>]>>
    /\ options = [Retries |-> 2, RetryAboveCode |-> 599, RetryCodes |-> <<429, 503>>]

\* ------------------------------------------------------------------ properties of a stream reader

\* line k of the body ends in '\n'
Terminated(k) == k < Len(lines) \/ lastTerminated

ErrorLead(l) == HasPrefix(TrimSpace(l), errorPrefix)

\* a line that does not begin with the data-frame marker
Noise(l) == ~HasPrefix(TrimSpace(l), headerData)

\* a line with the data-frame marker that is no error-lead line
DataFrame(l) == HasPrefix(TrimSpace(l), headerData) /\ ~ErrorLead(l)

IsSentinel(l) == TrimSpace(l) = LDone

\* line k is the sentinel and no data frame follows it
LastFrameIsSentinel(k) ==
    IsSentinel(lines[k]) /\ \A j \in (k + 1)..Len(lines) : ~DataFrame(lines[j])

\* every call from call c on returned io.EOF and read nothing past line k
EndOfStreamFrom(c, k) ==
    \A d \in c..Len(recvs) :
        recvs[d].kind = "EOF" /\ (d > c => recvs[d].from = k /\ recvs[d].to = k)

\* C4 as stated: for a body whose last data frame is the sentinel (every line ending
\* in '\n', the body ending cleanly), the call that reads the sentinel line returns
\* io.EOF, and so does every later call.
C4_SentinelEndsStream ==
    \A c \in 1..Len(recvs) : \A k \in 1..Len(lines) :
        (/\ lastTerminated /\ closeErr = "EOF"
         /\ LastFrameIsSentinel(k) /\ recvs[c].from < k /\ k <= recvs[c].to) =>
            \A d \in c..Len(recvs) : recvs[d].kind = "EOF"

\* C4 as amended: a call that stops at a sentinel line which ends in '\n', having
\* read no error-lead line before it in the same call, returns io.EOF, and every
\* later call returns io.EOF without reading, whatever follows the sentinel.
C4_SentinelEndsStreamAmended ==
    \A c \in 1..Len(recvs) :
        LET k == recvs[c].to
        IN  (/\ recvs[c].from < k
             /\ IsSentinel(lines[k])
             /\ Terminated(k)
             /\ \A j \in (recvs[c].from + 1)..(k - 1) : ~ErrorLead(lines[j])) =>
                EndOfStreamFrom(c, k)

C4_Witness ==
    /\ lines = <<LData1, LDone, LData2>>
    /\ Len(recvs) = 3
    /\ recvs[1].kind = "payload" /\ recvs[2].kind = "EOF" /\ recvs[3].kind = "EOF"
    /\ isFinished /\ pos = 2

\* C5: with emptyMessagesLimit = N, N noise lines followed by a valid data frame make
\* the first call return the payload of that frame; N+1 noise lines make it fail
\* with ErrTooManyEmptyStreamMessages, on line N+1 exactly.
C5_EmptyMessagesLimit ==
    LET N == emptyMessagesLimit
    IN  (Len(recvs) >= 1 /\ Len(lines) >= N + 1 /\ Terminated(N + 1)
         /\ \A j \in 1..N : Noise(lines[j])) =>
            /\ lines[N + 1] \in {LData1, LData2} =>
                   /\ recvs[1].kind = "payload"
                   /\ recvs[1].ID = (IF lines[N + 1] = LData1 THEN "1" ELSE "2")
                   /\ recvs[1].to = N + 1
            /\ Noise(lines[N + 1]) =>
                   /\ recvs[1].kind = "error"
                   /\ recvs[1].err.type = "ErrTooManyEmptyStreamMessages"
                   /\ recvs[1].to = N + 1

C5_Witness ==
    /\ emptyMessagesLimit = 2
    /\ lines = <<LEmpty, LPing, LData2>>
    /\ Len(recvs) = 1 /\ recvs[1].kind = "payload" /\ recvs[1].ID = "2" /\ pos = 3

\* the first call failed with the error of the envelope, message "boom"
FirstCallIsBoom ==
    /\ recvs[1].kind = "error"
    /\ recvs[1].err.type = "APIError"
    /\ recvs[1].err.Message = "boom"

\* C6 as stated: a body of the single error-lead line carrying the "boom" envelope
\* makes the first call fail with the error "boom", for every emptyMessagesLimit
\* and whether or not the line ends in '\n'.
C6_SingleErrorLine ==
    (lines = <<LErr>> /\ Len(recvs) >= 1) => FirstCallIsBoom

\* C6 as amended: it does so when emptyMessagesLimit >= 1 and the line ends in '\n'.
C6_SingleErrorLineAmended ==
    (lines = <<LErr>> /\ Len(recvs) >= 1 /\ emptyMessagesLimit >= 1 /\ lastTerminated)
        => FirstCallIsBoom

C6_Witness ==
    /\ lines = <<LErr>> /\ lastTerminated /\ emptyMessagesLimit = 1
    /\ Len(recvs) = 1 /\ FirstCallIsBoom /\ pos = 1

\* C14 as stated: every Recv call returns a payload, io.EOF or another non-nil
\* error, never the zero response with a nil error; a payload is the decoding of
\* the data frame the call stopped at.
C14_PayloadOrEOFOrError ==
    \A c \in 1..Len(recvs) :
        /\ recvs[c].kind \in {"payload", "EOF", "error"}
        /\ recvs[c].kind = "payload" =>
               /\ recvs[c].to > recvs[c].from
               /\ DataFrame(lines[recvs[c].to])

\* the payload a line decodes to, "" when it is no data frame that decodes
FrameID(l) ==
    CASE TrimSpace(l) = <<TData, TSp, TP1>> -> "1"
      [] TrimSpace(l) = <<TData, TSp, TP2>> -> "2"
      [] OTHER -> ""

RECURSIVE FramesUpTo(_)
\* the payloads of the data frames among the first n lines, in order, those after
\* the first sentinel left out
FramesUpTo(n) ==
    IF n = 0 THEN <<>>
    ELSE IF FrameID(lines[n]) # "" /\ \A j \in 1..(n - 1) : ~IsSentinel(lines[j])
    THEN Append(FramesUpTo(n - 1), FrameID(lines[n]))
    ELSE FramesUpTo(n - 1)

RECURSIVE PayloadsOf(_)
\* the payloads the first n Recv calls returned, in order
PayloadsOf(n) ==
    IF n = 0 THEN <<>>
    ELSE IF recvs[n].kind = "payload" THEN Append(PayloadsOf(n - 1), recvs[n].ID)
    ELSE PayloadsOf(n - 1)

\* the payloads returned are the data frames read so far, in order, and each call
\* that returned one stopped at its frame
DeliveredInOrder ==
    /\ PayloadsOf(Len(recvs)) = FramesUpTo(pos)
    /\ \A c \in 1..Len(recvs) :
           recvs[c].kind = "payload" =>
               /\ recvs[c].to > recvs[c].from
               /\ FrameID(lines[recvs[c].to]) = recvs[c].ID

\* C15 as stated: over a body whose lines all end in '\n' and that ends cleanly, the
\* payloads returned are the body's data frames in order up to the first sentinel,
\* none skipped, repeated or out of place.
C15_FramesInOrder ==
    (lastTerminated /\ closeErr = "EOF") => DeliveredInOrder

\* C15 as amended: they are, as long as every line read ended in '\n' and none of
\* them was an error-lead line.
C15_FramesInOrderAmended ==
    (\A j \in 1..pos : Terminated(j) /\ ~ErrorLead(lines[j])) => DeliveredInOrder

C15_Witness ==
    /\ lines = <<LData2, LPing, LData1>> /\ emptyMessagesLimit = 1
    /\ Len(recvs) = 2 /\ pos = 3
    /\ recvs[1].ID = "2" /\ recvs[2].ID = "1"

\* C16: once isFinished is true it stays true, and a Recv call made then returns
\* io.EOF, reads no line and leaves errBuffer and the read position as they were.
C16_FinishedIsTerminal ==
    [][isFinished =>
        /\ isFinished'
        /\ pos' = pos
        /\ errBuffer' = errBuffer
        /\ recvs' # recvs =>
               /\ Len(recvs') = Len(recvs) + 1
               /\ recvs'[Len(recvs')].kind = "EOF"
               /\ recvs'[Len(recvs')].from = pos
               /\ recvs'[Len(recvs')].to = pos]_vars

C16_Witness ==
    /\ isFinished /\ closed
    /\ lines = <<LPing, LDone, LData1>>
    /\ Len(recvs) = 3 /\ recvs[3].kind = "EOF" /\ recvs[3].from = 2 /\ recvs[3].to = 2
    /\ errBuffer = <<TPing>> /\ pos = 2

\* the call failed with ErrTooManyEmptyStreamMessages
TooManyEmpty(c) ==
    recvs[c].kind = "error" /\ recvs[c].err.type = "ErrTooManyEmptyStreamMessages"

\* the noise lines among the lines from+1..to, read whole (ending in '\n')
NoiseLines(from, to) == {j \in (from + 1)..to : Noise(lines[j]) /\ Terminated(j)}

\* C20 as stated: the noise lines count over the reader's lifetime, so a reader
\* (reading no error-lead line) that has read more than emptyMessagesLimit noise
\* lines over all its calls has failed with ErrTooManyEmptyStreamMessages.
C20_LifetimeNoiseBound ==
    (/\ \A j \in 1..pos : ~ErrorLead(lines[j])
     /\ Cardinality(NoiseLines(0, pos)) > emptyMessagesLimit)
        => \E c \in 1..Len(recvs) : TooManyEmpty(c)

\* C20 as amended: the count is per call. No call reads more than
\* emptyMessagesLimit + 1 noise lines, and a call that reads no error-lead line
\* fails with ErrTooManyEmptyStreamMessages exactly when it read that many itself,
\* whatever earlier calls read.
C20_PerCallNoiseBound ==
    \A c \in 1..Len(recvs) :
        LET noise == Cardinality(NoiseLines(recvs[c].from, recvs[c].to))
        IN  /\ noise <= emptyMessagesLimit + 1
            /\ (\A j \in (recvs[c].from + 1)..recvs[c].to : ~ErrorLead(lines[j])) =>
                   (TooManyEmpty(c) <=> noise = emptyMessagesLimit + 1)

C20_Witness ==
    /\ emptyMessagesLimit = 1
    /\ lines = <<LPing, LData1, LPing>> /\ lastTerminated
    /\ Len(recvs) = 2 /\ pos = 3
    /\ recvs[1].kind = "payload" /\ recvs[2].kind = "EOF"
    /\ Cardinality(NoiseLines(0, pos)) = 2

RECURSIVE Written(_, _)
\* what the lines from+1..to add to the error accumulator when each is examined:
\* a noise line whole (trimmed), an error-lead line without the data-frame marker
Written(from, to) ==
    IF to <= from THEN <<>>
    ELSE Written(from, to - 1) \o
         (IF ErrorLead(lines[to]) THEN TrimPrefix(TrimSpace(lines[to]), headerData)
          ELSE TrimSpace(lines[to]))

\* line j is the first error-lead line of the lines from+1..to, and was read whole
FirstErrorLead(j, from, to) ==
    /\ from < j /\ j <= to
    /\ ErrorLead(lines[j]) /\ Terminated(j)
    /\ \A k \in (from + 1)..(j - 1) : ~ErrorLead(lines[k])

\* C21: a Recv call that examines an error-lead line at line j, the empty-message
\* limit not exceeded by it, reads the body exactly once more and returns: the
\* line so read (line j+1, when the body has one) is consumed, is not appended to
\* errBuffer, and is delivered neither by this call nor, the calls reading the
\* body one after the other, by any later call.
C21_OneLineLookahead ==
    /\ [](/\ \A c \in 1..Len(recvs) :
                recvs[c].from = (IF c = 1 THEN 0 ELSE recvs[c - 1].to)
          /\ (recvs # <<>> => pos = recvs[Len(recvs)].to))
    /\ [][Len(recvs') = Len(recvs) + 1 =>
            LET r == recvs'[Len(recvs')]
            IN  \A j \in 1..Len(lines) :
                    FirstErrorLead(j, r.from, r.to) =>
                        IF r.kind = "error" /\ r.err.type = "ErrTooManyEmptyStreamMessages"
                        THEN r.to = j
                        ELSE /\ r.to = (IF j < Len(lines) THEN j + 1 ELSE j)
                             /\ r.kind # "payload"
                             /\ errBuffer' = errBuffer \o Written(r.from, j)
                             /\ pos' = r.to
                             /\ ~isFinished']_vars

C21_Witness ==
    /\ emptyMessagesLimit = 1
    /\ lines = <<LErr, LData1, LData2>>
    /\ Len(recvs) = 2
    /\ recvs[1].kind = "error" /\ recvs[1].err.Message = "boom" /\ recvs[1].to = 2
    /\ recvs[2].kind = "payload" /\ recvs[2].ID = "2"
    /\ errBuffer = <<TErrOpen, TBoom>>

\* ------------------------------------------------------------------ properties of a pair of calls

\* What the two dispatchers are compared on: the outcome class, the number of
\* transport calls and the attempt indexes after which a backoff wait ran.
Outcome(run) == [class |-> run.class, attempts |-> run.attempts, waits |-> run.waits]

\* C22: against the same merged policy, the same transport outcomes and the same
\* cancellation timing, sendRequest and sendRequestStream can make the same runs:
\* the same number of attempts, backoff waits after the same attempts, and the
\* same outcome class; each has a run, and where a select can go either way both
\* have both runs.
C22_SameAttemptsWaitsOutcome ==
    /\ {Outcome(x) : x \in buffered} = {Outcome(x) : x \in streamed}
    /\ (buffered = {}) = (streamed = {})
    /\ script # <<>> /\ buffered # {} =>
           \A x \in buffered :
               /\ x.class \in {"success", "nonRetriable", "canceled", "exhausted"}
               /\ x.attempts >= 1

C22_Witness ==
    /\ complete(NewDefaultRetryOptions, retryOpts).Retries = 2
    /\ script[1].wait = "both" /\ script[2].wait = "timer" /\ script[3].err
    /\ \E x \in streamed : x.class = "canceled" /\ x.attempts = 1 /\ x.waits = <<>>
    /\ \E x \in streamed : x.class = "canceled" /\ x.attempts = 2 /\ x.waits = <<0>>
    /\ \E x \in buffered : x.class = "canceled" /\ x.attempts = 2 /\ x.waits = <<0>>
    /\ Cardinality(buffered) = 2

====
